---- MODULE Spec2Model ----
(***************************************************************************)
(* Model of the movie-catalog application: the Flask application           *)
(* (project/app.py) and the FastAPI backend (project/backend/main.py),     *)
(* both working on the persisted user document users.json.                 *)
(*                                                                         *)
(* A request handler is split into atomic steps at its accesses to the     *)
(* persisted document: every load_users() and every save_users() is the    *)
(* end of one step, so that steps of requests of different clients         *)
(* interleave as the threads of the web server do.  The handlers of the    *)
(* FastAPI backend hold no await between their file accesses and run on    *)
(* one event loop: each of them is one atomic step.                        *)
(***************************************************************************)
EXTENDS Integers, Sequences, FiniteSets, TLC

VARIABLES
    db,         \* the persisted document users.json
    session,    \* session[c]: the username in client c's session cookie, "" when none
    pc,         \* pc[c]: where client c's request in flight stands, "idle" when none
    op,         \* op[c]: the handler of c's request in flight (or of its last one)
    user,       \* user[c]: the handler's local `user` dict, <<>> when None
    users,      \* users[c]: the local `users` list of update_user / register
    arg,        \* arg[c]: the form's movie id of the request in flight
    resp,       \* the response on its way to its client, NoResp when none
    nreq,       \* number of requests so far that went on to write the document
    prev,       \* history: the add_favorite requests completed last, see PrevAfter
    dirty,      \* history: dirty[c] = the document changed since c's request first read it
    stale,      \* history: some request saved after the document changed under it
    lost,       \* history: some save dropped data its own request did not mean to drop
    cleanStart  \* history: the initial document held no duplicate favorites

vars == <<db, session, pc, op, user, users, arg, resp, nreq, prev, dirty, stale, lost, cleanStart>>

----------------------------------------------------------------------------
(* Bounds of the model *)

\* requests in one behaviour that go on to write the document (requests that only
\* read it, log in or log out are not counted: the sessions they can leave are
\* bounded by the usernames of the document)
MaxWrites == 2

\* the clients of the Flask application; c1 is a script, c2 a browser
Clients == {"c1", "c2"}

----------------------------------------------------------------------------
(* Values *)

\* Python's str() on a small non-negative int
IntStr(n) == <<"0", "1", "2", "3", "4", "5", "6", "7", "8", "9">>[n + 1]

\* a movie id as stored in the document: a JSON number or a JSON string
IntId(n) == [t |-> "int", n |-> n, s |-> ""]
StrId(s) == [t |-> "str", n |-> 0, s |-> s]

\* str(f["id"]) / str(movie_id)
Str(id) == IF id.t = "int" THEN IntStr(id.n) ELSE id.s

\* str.strip() on the form values the model sends
Strip(s) ==
    CASE s = " a" -> "a"
      [] s = " p" -> "p"
      [] s = " "  -> ""
      [] OTHER    -> s

\* a favorite; imdbId and imdbRating are <<>> when the key is missing
Fav(id, imdbId, imdbRating) == [id |-> id, imdbId |-> imdbId, imdbRating |-> imdbRating]

\* a user record; a missing "favorites" or "list" key reads as the empty list
\* everywhere in the code (user.get(key, []), setdefault) and is modelled as <<>>
User(name, password, favorites, list) ==
    [username |-> name, password |-> password, favorites |-> favorites, list |-> list]

\* the persisted document: what the file holds
\*   "absent"   no file                      "dir"     the path cannot be opened
\*   "garbage"  text that is not JSON        "badutf8" bytes that are not UTF-8
\*   "notlist"  a JSON object                "list"    a JSON array of user records
Doc(kind, us) == [kind |-> kind, users |-> us]

\* the favorite add_favorite builds from the form: only the posted fields, no imdb keys
NewFav(id) == Fav(id, <<>>, <<>>)

\* a response: client its receiver, op the handler, code the HTTP status, to the redirect target,
\* msg the error message shown, saved whether the handler wrote the document,
\* who/id the user and movie id (as a string) the request was about
Rsp(o, code, to, msg) ==
    [client |-> "", op |-> o, code |-> code, to |-> to, msg |-> msg,
     saved |-> FALSE, who |-> "", id |-> ""]

RspFor(o, code, to, msg, saved, who, id) ==
    [client |-> "", op |-> o, code |-> code, to |-> to, msg |-> msg,
     saved |-> saved, who |-> who, id |-> id]

\* an exception that leaves the handler: the framework answers 500
ServerError(o) == Rsp(o, 500, "", "")

NoResp == Rsp("", 0, "", "")

\* the form of add_favorite / remove_favorite: the movie id and whether the request
\* carries X-Requested-With: XMLHttpRequest
Form(id, ajax) == [id |-> id, ajax |-> ajax]

\* the script sends X-Requested-With: XMLHttpRequest, the browser's form does not
IsAjax(c) == c = "c1"

NoArg == Form(StrId(""), FALSE)

----------------------------------------------------------------------------
(* The JSON "DB" helpers of app.py *)

\* json.load raises UnicodeDecodeError on bytes that are not UTF-8; load_users
\* catches json.JSONDecodeError and OSError only
LoadRaises(doc) == doc.kind = "badutf8"

\* load_users: [] unless the document is a JSON array
LoadUsers(doc) == IF doc.kind = "list" THEN doc.users ELSE <<>>

\* open(DB_FILE, "w") raises OSError when the path cannot be opened
SaveRaises(doc) == doc.kind = "dir"

\* save_users: the document becomes the JSON array of the given list
SaveUsers(us) == Doc("list", us)

\* positions of the records with the given username
Matches(us, name) == {i \in DOMAIN us : us[i].username = name}

First(S) == CHOOSE i \in S : \A j \in S : i <= j

\* the loop of find_user over a loaded list: the first record with the username
FindIn(us, name) ==
    IF Matches(us, name) = {} THEN <<>> ELSE <<us[First(Matches(us, name))]>>

\* find_user raises what load_users raises, unless the username is empty
FindUserRaises(doc, name) == name # "" /\ LoadRaises(doc)

\* find_user: None (<<>>) for an empty username, else the first match in the loaded list
FindUser(doc, name) == IF name = "" THEN <<>> ELSE FindIn(LoadUsers(doc), name)

\* update_user with a slip: only the updated user is kept in the list it saves
ReplaceUserOnly(us, u) == <<u>>

\* update_user with a slip: the assignment users[i] = user is missing
ReplaceUserNever(us, u) == us

\* the loop of update_user: the first record with the same username is replaced;
\* the list is left as it is when there is none
ReplaceUser(us, u) ==
    IF Matches(us, u.username) = {}
    THEN us
    ELSE [us EXCEPT ![First(Matches(us, u.username))] = u]

\* register with a slip: the new user is saved alone, not appended to the loaded list
OnlyNewUser(us, u) == <<u>>

\* users.append({...}) of register
WithNewUser(us, u) == Append(us, u)

\* update_user as a whole, uninterrupted: the document it leaves
UpdateUserDoc(doc, u) ==
    IF LoadRaises(doc) \/ SaveRaises(doc)
    THEN doc
    ELSE SaveUsers(ReplaceUser(LoadUsers(doc), u))

----------------------------------------------------------------------------
(* Favorites: the membership test, the filter and the rating cache of app.py *)

\* the comparison with a slip: f["id"] == movie_id, without str()
SameIdRaw(a, b) == a = b

\* the comparison of add_favorite and remove_favorite: ids as strings
SameId(a, b) == Str(a) = Str(b)

\* the membership test with a slip: only the first favorite is looked at
HasFavoriteFirstOnly(favs, id) == favs # <<>> /\ SameId(favs[1].id, id)

\* any(str(f["id"]) == str(movie_id) for f in user["favorites"])
HasFavorite(favs, id) == \E i \in DOMAIN favs : SameId(favs[i].id, id)

\* the filter with a slip: only the first matching favorite is removed
WithoutFirstMatch(favs, id) ==
    LET M == {i \in DOMAIN favs : SameId(favs[i].id, id)}
    IN  IF M = {} THEN favs
        ELSE [i \in 1..(Len(favs) - 1) |-> IF i < First(M) THEN favs[i] ELSE favs[i + 1]]

\* [f for f in favorites if str(f.get("id")) != str(movie_id)]
WithoutFavorite(favs, id) == SelectSeq(favs, LAMBDA f : ~SameId(f.id, id))

\* what the two remote lookups of get_or_cache_imdb_rating answer for one favorite:
\* id the IMDb id TMDb gives (<<>> when none), rating the rating OMDb gives
OmdbRatings == {7}

Lookup(id, rating) == [id |-> id, rating |-> rating]

\* the answers the model's remote services give: TMDb knows no IMDb id for the
\* movie; it knows one and OMDb has no rating for it; it knows one and OMDb has a rating
Lookups == {Lookup(<<>>, <<>>), Lookup(<<"tt">>, <<>>)} \cup {Lookup(<<"tt">>, <<r>>) : r \in OmdbRatings}

\* get_or_cache_imdb_rating: the favorite as the call leaves it
CachedFav(f, look) ==
    IF f.imdbRating # <<>> THEN f
    ELSE IF f.imdbId = <<>> /\ look.id = <<>> THEN f
    ELSE LET g == IF f.imdbId = <<>> THEN [f EXCEPT !.imdbId = look.id] ELSE f
         IN  IF look.rating = <<>> THEN g ELSE [g EXCEPT !.imdbRating = look.rating]

\* get_or_cache_imdb_rating: its was_updated result
CacheUpdated(f, look) ==
    /\ f.imdbRating = <<>>
    /\ ~(f.imdbId = <<>> /\ look.id = <<>>)
    /\ look.rating # <<>>

----------------------------------------------------------------------------
(* The guard and the handlers of app.py that take one step *)

\* login_required with a slip: the session is not looked at
LoginRequiredAlways(sess) == TRUE

\* login_required: the wrapped handler runs only with a username in the session
LoginRequired(sess) == sess # ""

ToLogin(o) == Rsp(o, 302, "login", "")

\* login: the session and the response it leaves
LoginHandler(doc, sess, post, rawName, rawPassword) ==
    LET username == Strip(rawName)
        password == Strip(rawPassword)
        found    == FindUser(doc, username)
    IN  IF sess # "" THEN [session |-> sess, resp |-> Rsp("login", 302, "movies", "")]
        ELSE IF ~post THEN [session |-> sess, resp |-> Rsp("login", 200, "", "")]
        ELSE IF FindUserRaises(doc, username)
             THEN [session |-> sess, resp |-> ServerError("login")]
        ELSE IF found # <<>> /\ found[1].password = password
             THEN [session |-> username,
                   resp |-> RspFor("login", 302, "movies", "", FALSE, username, "")]
        ELSE [session |-> sess,
              resp |-> Rsp("login", 200, "", "Invalid username or password.")]

\* register up to its find_user: the response when it ends there, NoResp when it
\* goes on to load, append and save
RegisterCheck(doc, sess, post, rawName, rawPassword, rawConfirm) ==
    LET username == Strip(rawName)
        password == Strip(rawPassword)
        confirm  == Strip(rawConfirm)
    IN  IF sess # "" THEN Rsp("register", 302, "movies", "")
        ELSE IF ~post THEN Rsp("register", 200, "", "")
        ELSE IF username = "" \/ password = ""
             THEN Rsp("register", 200, "", "Username and password are required.")
        ELSE IF password # confirm
             THEN Rsp("register", 200, "", "Passwords do not match.")
        ELSE IF FindUserRaises(doc, username) THEN ServerError("register")
        ELSE IF FindUser(doc, username) # <<>>
             THEN Rsp("register", 200, "", "Username already taken.")
        ELSE NoResp

----------------------------------------------------------------------------
(* What a document holds, for the history variables and the properties *)

Usernames(doc) == {LoadUsers(doc)[i].username : i \in DOMAIN LoadUsers(doc)}

\* the favorites of the first record with the username, <<>> when there is none
FavoritesOf(doc, name) ==
    IF FindIn(LoadUsers(doc), name) = <<>> THEN <<>>
    ELSE FindIn(LoadUsers(doc), name)[1].favorites

FavIds(doc, name) ==
    {Str(FavoritesOf(doc, name)[i].id) : i \in DOMAIN FavoritesOf(doc, name)}

RatedIds(doc, name) ==
    {Str(FavoritesOf(doc, name)[i].id) :
        i \in {j \in DOMAIN FavoritesOf(doc, name) : FavoritesOf(doc, name)[j].imdbRating # <<>>}}

\* a write from old to new drops a user, a favorite or a cached rating, other than
\* the favorite rmId of user name that the writing request was asked to remove
Clobbers(old, new, name, rmId) ==
    \/ \E n \in Usernames(old) : n \notin Usernames(new)
    \/ \E n \in Usernames(old) : \E i \in FavIds(old, n) \ FavIds(new, n) :
          ~(n = name /\ i = rmId)
    \/ \E n \in Usernames(old) : \E i \in RatedIds(old, n) \cap FavIds(new, n) :
          i \notin RatedIds(new, n)

\* no favorites sequence of the document holds two entries with the same id string
NoDuplicates(doc) ==
    \A u \in DOMAIN LoadUsers(doc) :
        \A i, j \in DOMAIN LoadUsers(doc)[u].favorites :
            i # j => Str(LoadUsers(doc)[u].favorites[i].id) # Str(LoadUsers(doc)[u].favorites[j].id)

\* the history of consecutive add_favorite requests after response r: <<>> unless r
\* ends an add_favorite whose body ran for a user it found, else <<user, id, k>>,
\* k = 2 when the request completed before it was an add_favorite of the same
\* user and id, k = 1 when not
PrevAfter(r, p) ==
    IF r.op = "add_favorite" /\ r.who # "" /\ r.code \in {200, 302}
    THEN <<r.who, r.id, IF p # <<>> /\ p[1] = r.who /\ p[2] = r.id THEN 2 ELSE 1>>
    ELSE <<>>

----------------------------------------------------------------------------
(* Initial state *)

\* the documents a behaviour starts from: the ways the file can fail to hold a list,
\* the empty list, and a list with one user
InitDocs ==
    { Doc("absent", <<>>), Doc("dir", <<>>), Doc("garbage", <<>>),
      Doc("badutf8", <<>>), Doc("notlist", <<>>),
      Doc("list", <<>>),
      Doc("list", <<User("a", "p", <<Fav(IntId(1), <<>>, <<>>)>>, <<[id |-> 1]>>)>>) }

\* a document that no handler writes but that the file can hold (edited by hand or
\* imported): a user with two favorites whose ids are equal as strings
DuplicateDocs ==
    { Doc("list", <<User("a", "p", <<NewFav(StrId("1")), NewFav(IntId(1))>>, <<>>)>>) }

\* the state after the start of the two servers with the document doc on disk
InitWith(docs) ==
    /\ db \in docs
    /\ session = [c \in Clients |-> ""]
    /\ pc = [c \in Clients |-> "idle"]
    /\ op = [c \in Clients |-> ""]
    /\ user = [c \in Clients |-> <<>>]
    /\ users = [c \in Clients |-> <<>>]
    /\ arg = [c \in Clients |-> NoArg]
    /\ resp = NoResp
    /\ nreq = 0
    /\ prev = <<>>
    /\ dirty = [c \in Clients |-> FALSE]
    /\ stale = FALSE
    /\ lost = FALSE
    /\ cleanStart = NoDuplicates(db)

Init == InitWith(InitDocs)

InitSeq == InitWith(InitDocs \cup DuplicateDocs)

----------------------------------------------------------------------------
(* Steps *)

\* The response of a finished request is read off (Deliver) before the next step
\* is taken.  Deliver changes resp alone and is enabled whenever there is a response:
\* it commutes with every step of the handlers, so that no behaviour of the
\* document, the sessions or the handlers' locals is left out.
Ready == resp = NoResp

\* a request of client c arrives
Begin(c) ==
    /\ Ready
    /\ pc[c] = "idle"

\* the request counts against MaxWrites / it does not
Spend == nreq < MaxWrites /\ nreq' = nreq + 1

Free == nreq' = nreq

\* a request ends with response r for client c
Finish(c, r) ==
    /\ resp' = [r EXCEPT !.client = c]
    /\ prev' = PrevAfter(r, prev)

\* the handler of client c returns: its locals are gone
Return(c) ==
    /\ pc' = [pc EXCEPT ![c] = "idle"]
    /\ op' = [op EXCEPT ![c] = ""]
    /\ user' = [user EXCEPT ![c] = <<>>]
    /\ users' = [users EXCEPT ![c] = <<>>]
    /\ arg' = [arg EXCEPT ![c] = NoArg]

\* the request of c goes on at `next` with the locals u, us, a
Continue(c, next, o, u, us, a) ==
    /\ pc' = [pc EXCEPT ![c] = next]
    /\ op' = [op EXCEPT ![c] = o]
    /\ user' = [user EXCEPT ![c] = u]
    /\ users' = [users EXCEPT ![c] = us]
    /\ arg' = [arg EXCEPT ![c] = a]
    /\ UNCHANGED <<resp, prev>>

\* the step leaves the document alone
NoSave == UNCHANGED <<db, dirty, stale, lost, cleanStart>>

\* the step writes the list us; w the writing client ("api" for the backend);
\* name/rmId: the favorite its request was asked to remove
Save(w, us, name, rmId) ==
    /\ db' = SaveUsers(us)
    /\ dirty' = [d \in Clients |->
                    IF d = w THEN FALSE
                    ELSE dirty[d] \/ (pc[d] # "idle" /\ SaveUsers(us) # db)]
    /\ stale' = (stale \/ (w \in Clients /\ dirty[w]))
    /\ lost' = (lost \/ Clobbers(db, SaveUsers(us), name, rmId))
    /\ UNCHANGED cleanStart

\* a handler of the Flask application that takes one step and ends with r
OneStep(c, r) ==
    /\ Begin(c)
    /\ Finish(c, r)
    /\ UNCHANGED <<pc, op, user, users, arg>>
    /\ NoSave

\* the first step of a handler that ends there with r, unless r is NoResp: then
\* the handler goes on at `next`
FirstStep(c, r, next, o, u, a) ==
    /\ Begin(c)
    /\ IF r # NoResp
       THEN Finish(c, r) /\ UNCHANGED <<pc, op, user, users, arg>> /\ Free
       ELSE Continue(c, next, o, u, <<>>, a) /\ Spend
    /\ UNCHANGED <<db, stale, lost, cleanStart, session>>
    /\ dirty' = [dirty EXCEPT ![c] = FALSE]

\* a later step of a handler fails: the exception leaves the handler
Fail(c) ==
    /\ Finish(c, ServerError(op[c]))
    /\ Return(c)
    /\ UNCHANGED <<db, stale, lost, cleanStart, session, nreq>>
    /\ dirty' = [dirty EXCEPT ![c] = FALSE]

\* the values the model's clients send
Credentials(post, name, password, confirm) ==
    [post |-> post, username |-> name, password |-> password, confirm |-> confirm]

LoginForms ==
    { Credentials(FALSE, "", "", ""),
      Credentials(TRUE, "", " p", ""),
      Credentials(TRUE, " a", " p", ""),
      Credentials(TRUE, " a", "q", ""),
      Credentials(TRUE, "b", "p", ""),
      Credentials(TRUE, "b", "", "") }

RegisterForms ==
    { Credentials(FALSE, "", "", ""),
      Credentials(TRUE, " ", "p", "p"),
      Credentials(TRUE, " a", "", ""),
      Credentials(TRUE, " a", " p", "q"),
      Credentials(TRUE, " a", " p", "p"),
      Credentials(TRUE, "b", "p", " p") }

FormIds == {StrId("1"), StrId("2")}

----------------------------------------------------------------------------
(* The handlers of app.py *)

\* login: one step, it reads the document once
Login(c) ==
    \E f \in LoginForms :
        LET out == LoginHandler(db, session[c], f.post, f.username, f.password) IN
        /\ OneStep(c, out.resp)
        /\ session' = [session EXCEPT ![c] = out.session]
        /\ Free

\* logout: session.pop("username")
Logout(c) ==
    /\ OneStep(c, Rsp("logout", 302, "login", ""))
    /\ session' = [session EXCEPT ![c] = ""]
    /\ Free

\* register, first step: the checks and find_user
RegisterBegin(c) ==
    \E f \in RegisterForms :
        FirstStep(c, RegisterCheck(db, session[c], f.post, f.username, f.password, f.confirm),
                  "reg_load", "register",
                  <<User(Strip(f.username), Strip(f.password), <<>>, <<>>)>>, NoArg)

\* register, second step: users = load_users(); users.append(...)
RegisterLoad(c) ==
    /\ Ready
    /\ pc[c] = "reg_load"
    /\ IF LoadRaises(db)
       THEN Fail(c)
       ELSE /\ Continue(c, "reg_save", "register", user[c],
                        WithNewUser(LoadUsers(db), user[c][1]), NoArg)
            /\ UNCHANGED <<db, dirty, stale, lost, cleanStart, session, nreq>>

\* register, third step: save_users(users), then the auto-login
RegisterSave(c) ==
    /\ Ready
    /\ pc[c] = "reg_save"
    /\ IF SaveRaises(db)
       THEN Fail(c)
       ELSE /\ Save(c, users[c], "", "")
            /\ session' = [session EXCEPT ![c] = user[c][1].username]
            /\ Finish(c, RspFor("register", 302, "movies", "", TRUE, user[c][1].username, ""))
            /\ Return(c)
            /\ UNCHANGED nreq

\* login_required: the wrapper answers with the redirect to login, or calls the
\* handler, whose first step ends with r (NoResp: it goes on)
Guarded(sess, o, r) == IF ~LoginRequired(sess) THEN ToLogin(o) ELSE r

\* movies: the search (bodyOk: the remote answers were well-formed JSON, else
\* response.json() raises) and find_user
MoviesBody(doc, sess, bodyOk) ==
    IF ~bodyOk \/ FindUserRaises(doc, sess) THEN ServerError("movies")
    ELSE RspFor("movies", 200, "", "", FALSE, sess, "")

Movies(c) ==
    \E bodyOk \in BOOLEAN :
        /\ OneStep(c, Guarded(session[c], "movies", MoviesBody(db, session[c], bodyOk)))
        /\ UNCHANGED session
        /\ Free

\* my_list: find_user and the listing, in the order of insertion (sort=added)
MyListBody(doc, sess) ==
    IF FindUserRaises(doc, sess) THEN ServerError("my_list")
    ELSE RspFor("my_list", 200, "", "", FALSE, sess, "")

MyList(c) ==
    /\ OneStep(c, Guarded(session[c], "my_list", MyListBody(db, session[c])))
    /\ UNCHANGED session
    /\ Free

\* the response of add_favorite / remove_favorite: JSON for a script, a redirect for a form
Answer(o, form, to, saved, who) ==
    IF form.ajax
    THEN RspFor(o, 200, "", "", saved, who, Str(form.id))
    ELSE RspFor(o, 302, to, "", saved, who, Str(form.id))

\* add_favorite up to its membership test: the response when it ends there
AddFavoriteBody(doc, sess, form) ==
    IF FindUserRaises(doc, sess) THEN ServerError("add_favorite")
    ELSE IF FindUser(doc, sess) = <<>> THEN Rsp("add_favorite", 400, "", "User not found")
    ELSE IF HasFavorite(FindUser(doc, sess)[1].favorites, form.id)
         THEN Answer("add_favorite", form, "movies", FALSE, sess)
    ELSE NoResp

\* user["favorites"].append({field: request.form.get(field) ...})
WithFavorite(u, id) == [u EXCEPT !.favorites = Append(@, NewFav(id))]

\* add_favorite, first step: find_user, the membership test and the append
AddFavoriteBegin(c) ==
    \E id \in FormIds :
        LET form  == Form(id, IsAjax(c))
            found == FindUser(db, session[c])
        IN  FirstStep(c, Guarded(session[c], "add_favorite", AddFavoriteBody(db, session[c], form)),
                      "upd_load", "add_favorite",
                      IF found = <<>> THEN <<>> ELSE <<WithFavorite(found[1], id)>>, form)

\* remove_favorite up to find_user: the response when it ends there
RemoveFavoriteBody(doc, sess, form) ==
    IF FindUserRaises(doc, sess) THEN ServerError("remove_favorite")
    ELSE IF FindUser(doc, sess) = <<>>
         THEN IF form.ajax THEN Rsp("remove_favorite", 400, "", "User not found")
                           ELSE Rsp("remove_favorite", 302, "my_list", "")
    ELSE NoResp

\* remove_favorite, first step: find_user and the filter
RemoveFavoriteBegin(c) ==
    \E id \in FormIds :
        LET form  == Form(id, IsAjax(c))
            found == FindUser(db, session[c])
        IN  FirstStep(c, Guarded(session[c], "remove_favorite",
                                 RemoveFavoriteBody(db, session[c], form)),
                      "upd_load", "remove_favorite",
                      IF found = <<>> THEN <<>>
                      ELSE <<[found[1] EXCEPT !.favorites = WithoutFavorite(@, id)]>>, form)

\* wrapped up to its `if user and dirty`: the response when it ends there (look[i]:
\* what the remote lookups answer for favorite i; bodyOk: their bodies were JSON,
\* else response.json() raises in the first lookup with such a body; a favorite
\* with a cached rating is not looked up)
WrappedBody(doc, sess, look, bodyOk) ==
    LET found == FindUser(doc, sess)
        favs  == IF found = <<>> THEN <<>> ELSE found[1].favorites
    IN  IF FindUserRaises(doc, sess) THEN ServerError("wrapped")
        ELSE IF favs = <<>> THEN RspFor("wrapped", 200, "", "", FALSE, sess, "")
        ELSE IF ~bodyOk /\ \E i \in DOMAIN favs : favs[i].imdbRating = <<>>
             THEN ServerError("wrapped")
        ELSE IF \E i \in DOMAIN favs : CacheUpdated(favs[i], look[i]) THEN NoResp
        ELSE RspFor("wrapped", 200, "", "", FALSE, sess, "")

\* the favorites as get_or_cache_imdb_rating leaves them
CachedFavs(favs, look) == [i \in DOMAIN favs |-> CachedFav(favs[i], look[i])]

\* wrapped, first step: find_user and the rating of every favorite
WrappedBegin(c) ==
    LET found == FindUser(db, session[c])
        favs  == IF found = <<>> THEN <<>> ELSE found[1].favorites
    IN  \E look \in [DOMAIN favs -> Lookups], bodyOk \in BOOLEAN :
            FirstStep(c, Guarded(session[c], "wrapped", WrappedBody(db, session[c], look, bodyOk)),
                      "upd_load", "wrapped",
                      IF found = <<>> THEN <<>>
                      ELSE <<[found[1] EXCEPT !.favorites = CachedFavs(favs, look)]>>, NoArg)

\* update_user, first step: users = load_users() and the replacement
UpdateUserLoad(c) ==
    /\ Ready
    /\ pc[c] = "upd_load"
    /\ IF LoadRaises(db)
       THEN Fail(c)
       ELSE /\ Continue(c, "upd_save", op[c], user[c],
                        ReplaceUser(LoadUsers(db), user[c][1]), arg[c])
            /\ UNCHANGED <<db, dirty, stale, lost, cleanStart, session, nreq>>

\* the response of the handler that called update_user
AfterUpdate(o, form, who) ==
    CASE o = "add_favorite"    -> Answer(o, form, "movies", TRUE, who)
      [] o = "remove_favorite" -> Answer(o, form, "my_list", TRUE, who)
      [] OTHER                 -> RspFor(o, 200, "", "", TRUE, who, "")

\* update_user, second step: save_users(users), then the rest of the handler
UpdateUserSave(c) ==
    /\ Ready
    /\ pc[c] = "upd_save"
    /\ IF SaveRaises(db)
       THEN Fail(c)
       ELSE /\ Save(c, users[c], user[c][1].username,
                    IF op[c] = "remove_favorite" THEN Str(arg[c].id) ELSE "")
            /\ Finish(c, AfterUpdate(op[c], arg[c], user[c][1].username))
            /\ Return(c)
            /\ UNCHANGED <<session, nreq>>

----------------------------------------------------------------------------
(* The handlers of backend/main.py.  They use the same file name, users.json;  *)
(* each runs from its first load to its save without giving up the event loop. *)
(* Their client is "api".                                                      *)

\* load_users of the backend returns whatever json.load gives: a document that is
\* not a list makes the handler's loop over it raise; bytes that are not UTF-8 raise
BackendRaises(doc) == doc.kind \in {"badutf8", "notlist"}

\* the values the model's backend client sends (the backend does not strip them)
ApiForm(name, password, movieId) == [username |-> name, password |-> password, id |-> movieId]

ApiRegistrations == {ApiForm("", "p", 0), ApiForm("a", "", 0), ApiForm("a", "p", 0),
                     ApiForm("b", "p", 0)}

ApiCredentials == ApiRegistrations \cup {ApiForm("a", "q", 0)}

ApiMovies == {ApiForm("", "", 1), ApiForm("a", "", 1), ApiForm("a", "", 2), ApiForm("b", "", 1)}

\* any(m.get("id") == movie_id for m in user_list)
InList(list, movieId) == \E i \in DOMAIN list : list[i].id = movieId

\* a handler of the backend: one step that ends with r and saves the list us when
\* r says so
ApiStep(r, us) ==
    /\ Ready
    /\ Finish("api", r)
    /\ IF r.saved
       THEN Save("api", us, "", "") /\ Spend
       ELSE NoSave /\ Free
    /\ UNCHANGED <<session, pc, op, user, users, arg>>

\* the response of the backend's register
BackendRegisterResp(doc, name, password) ==
    IF name = "" \/ password = ""
    THEN Rsp("api_register", 400, "", "Username and password required")
    ELSE IF BackendRaises(doc) THEN ServerError("api_register")
    ELSE IF FindIn(LoadUsers(doc), name) # <<>>
         THEN Rsp("api_register", 400, "", "User already exists")
    ELSE IF SaveRaises(doc) THEN ServerError("api_register")
    ELSE RspFor("api_register", 200, "", "", TRUE, name, "")

BackendRegister ==
    \E f \in ApiRegistrations :
        ApiStep(BackendRegisterResp(db, f.username, f.password),
                WithNewUser(LoadUsers(db), User(f.username, f.password, <<>>, <<>>)))

\* the response of the backend's login
BackendLoginResp(doc, name, password) ==
    IF name = "" \/ password = ""
    THEN Rsp("api_login", 400, "", "Username and password required")
    ELSE IF BackendRaises(doc) THEN ServerError("api_login")
    ELSE IF FindIn(LoadUsers(doc), name) = <<>> \/ FindIn(LoadUsers(doc), name)[1].password # password
         THEN Rsp("api_login", 401, "", "Invalid username or password")
    ELSE RspFor("api_login", 200, "", "", FALSE, name, "")

BackendLogin ==
    \E f \in ApiCredentials : ApiStep(BackendLoginResp(db, f.username, f.password), <<>>)

\* add_to_list: the list it saves.  `user` comes from find_user, which loads the
\* document again: the appended entry is on that second copy, and `users`, the
\* list that is saved, is the first copy, as loaded
AddToListSaved(doc, name, movieId) == LoadUsers(doc)

\* the response of add_to_list
AddToListResp(doc, name, movieId) ==
    IF name = "" THEN Rsp("add_to_list", 400, "", "Username required")
    ELSE IF BackendRaises(doc) THEN ServerError("add_to_list")
    ELSE IF FindIn(LoadUsers(doc), name) = <<>> THEN Rsp("add_to_list", 404, "", "User not found")
    ELSE IF InList(FindIn(LoadUsers(doc), name)[1].list, movieId)
         THEN Rsp("add_to_list", 400, "", "Movie already in your list")
    ELSE IF SaveRaises(doc) THEN ServerError("add_to_list")
    ELSE RspFor("add_to_list", 200, "", "", TRUE, name, IntStr(movieId))

AddToList ==
    \E f \in ApiMovies :
        ApiStep(AddToListResp(db, f.username, f.id), AddToListSaved(db, f.username, f.id))

\* get_list: the movies it returns for a user it finds
GetListMovies(doc, name) ==
    IF FindIn(LoadUsers(doc), name) = <<>> THEN <<>>
    ELSE FindIn(LoadUsers(doc), name)[1].list

\* the response of get_list
GetListResp(doc, name) ==
    IF BackendRaises(doc) THEN ServerError("get_list")
    ELSE IF FindIn(LoadUsers(doc), name) = <<>> THEN Rsp("get_list", 404, "", "User not found")
    ELSE RspFor("get_list", 200, "", "", FALSE, name, "")

GetList ==
    \E f \in ApiMovies : ApiStep(GetListResp(db, f.username), <<>>)

\* delete_from_list: the list it saves; the filtered list is set on the copy
\* find_user loaded, `users` is saved as loaded
DeleteFromListSaved(doc, name, movieId) == LoadUsers(doc)

\* the response of delete_from_list
DeleteFromListResp(doc, name, movieId) ==
    IF BackendRaises(doc) THEN ServerError("delete_from_list")
    ELSE IF FindIn(LoadUsers(doc), name) = <<>>
         THEN Rsp("delete_from_list", 404, "", "User not found")
    ELSE IF ~InList(FindIn(LoadUsers(doc), name)[1].list, movieId)
         THEN Rsp("delete_from_list", 404, "", "Movie not found in your list")
    ELSE IF SaveRaises(doc) THEN ServerError("delete_from_list")
    ELSE RspFor("delete_from_list", 200, "", "", TRUE, name, IntStr(movieId))

DeleteFromList ==
    \E f \in ApiMovies :
        ApiStep(DeleteFromListResp(db, f.username, f.id), DeleteFromListSaved(db, f.username, f.id))

----------------------------------------------------------------------------
(* Specifications *)

Step(c) ==
    \/ Login(c)
    \/ Logout(c)
    \/ RegisterBegin(c)
    \/ RegisterLoad(c)
    \/ RegisterSave(c)
    \/ Movies(c)
    \/ MyList(c)
    \/ AddFavoriteBegin(c)
    \/ RemoveFavoriteBegin(c)
    \/ WrappedBegin(c)
    \/ UpdateUserLoad(c)
    \/ UpdateUserSave(c)

Api ==
    \/ BackendRegister
    \/ BackendLogin
    \/ AddToList
    \/ GetList
    \/ DeleteFromList

\* the client receives the response
Deliver ==
    /\ ~Ready
    /\ resp' = NoResp
    /\ UNCHANGED <<db, session, pc, op, user, users, arg, nreq, prev, dirty, stale, lost, cleanStart>>

\* the requests of the clients interleave step by step
Next == Deliver \/ Api \/ \E c \in Clients : Step(c)

Spec == Init /\ [][Next]_vars

\* one request at a time: a step is taken only while no other request is in flight;
\* the behaviours start from the documents of Init and from DuplicateDocs
Alone(c) == \A d \in Clients \ {c} : pc[d] = "idle"

NextSeq ==
    \/ Deliver
    \/ (\A d \in Clients : pc[d] = "idle") /\ Api
    \/ \E c \in Clients : Alone(c) /\ Step(c)

SpecSeq == InitSeq /\ [][NextSeq]_vars

----------------------------------------------------------------------------
(* Properties *)

AllIdle == \A c \in Clients : pc[c] = "idle"

\* the request that ended with response r succeeded
Succeeded(r) == r.code \in {200, 302} /\ r.to # "login" /\ r.msg = ""

\* C1: lost update.  A save drops data that its own request did not mean to
\* drop (a user, a favorite, a cached rating that another request had written) only
\* when the document changed between that request's first read and its save; the
\* interleaving of two requests' load and save steps is the only way to lose a write.
C1_LossOnlyByStaleSave == lost => stale

\* C1, the lost update reached: every request has completed, the
\* last one successfully with a save, and that save dropped what a request
\* that wrote before it had written
C1_LostUpdateReached ==
    /\ AllIdle
    /\ lost /\ stale
    /\ resp.saved /\ Succeeded(resp)
    /\ resp.op \in {"add_favorite", "remove_favorite", "wrapped"}

\* user records to call update_user with
SomeUsers ==
    { User(n, p, f, <<>>) :
        n \in {"a", "b"}, p \in {"p", "x"},
        f \in { <<>>, <<NewFav(StrId("2"))>>,
                <<Fav(IntId(1), <<"tt">>, <<7>>), NewFav(StrId("2"))>> } }

\* C2 as stated: update_user(U) then find_user(U.username) returns U whether or not
\* a record with that username was in the store (upsert)
C2_UpdateUserIsUpsert ==
    \A u \in SomeUsers : FindUser(UpdateUserDoc(db, u), u.username) = <<u>>

\* C2 as amended: when a record with U's username is in the store, update_user(U)
\* then find_user(U.username) returns U; when none is, update_user(U) leaves the
\* list of users as it was and find_user(U.username) still finds nothing
C2_UpdateUserReplaces ==
    \A u \in SomeUsers :
        IF u.username \in Usernames(db)
        THEN FindUser(UpdateUserDoc(db, u), u.username) = <<u>>
        ELSE /\ FindUser(UpdateUserDoc(db, u), u.username) = <<>>
             /\ LoadUsers(UpdateUserDoc(db, u)) = LoadUsers(db)

\* C2: a handler has called update_user for a user of the store, and find_user
\* returns the record it wrote
C2_UpdateUserActed ==
    /\ resp.op = "add_favorite" /\ resp.saved /\ Succeeded(resp)
    /\ FindUser(db, resp.who) # <<>>
    /\ HasFavorite(FindUser(db, resp.who)[1].favorites, StrId(resp.id))

\* number of favorites whose id, as a string, is s
CountId(favs, s) == Cardinality({i \in DOMAIN favs : Str(favs[i].id) = s})

\* C3: add_favorite is idempotent.  When an add_favorite of a user and an id
\* completes right after an add_favorite of the same user and id, it has not
\* written the document, the document is as it was, and the user has exactly one
\* favorite with that id (in a store that started without duplicates).
C3_AddFavoriteIdempotent ==
    [][ ( /\ resp' # resp
          /\ resp'.op = "add_favorite" /\ resp'.who # "" /\ Succeeded(resp')
          /\ prev # <<>> /\ prev[1] = resp'.who /\ prev[2] = resp'.id )
        => /\ ~resp'.saved
           /\ db' = db
           /\ HasFavorite(FavoritesOf(db', resp'.who), StrId(resp'.id))
           /\ cleanStart => CountId(FavoritesOf(db', resp'.who), resp'.id) = 1 ]_vars

\* C3: the same add_favorite has completed twice in a row, the first one having
\* appended the favorite
C3_AddedTwice ==
    /\ prev # <<>> /\ prev[3] = 2
    /\ resp.op = "add_favorite" /\ ~resp.saved /\ Succeeded(resp)
    /\ prev[1] = "b"

\* C4: no duplicate favorites.  In a store that started without duplicates, no
\* favorites sequence ever holds two entries whose ids are equal as strings.
C4_NoDuplicateFavorites == cleanStart => NoDuplicates(db)

\* C4: an add_favorite has saved after the document changed under it (its steps
\* interleaved with another request's save), in a store that started without duplicates
C4_InterleavedAdd ==
    /\ cleanStart /\ stale
    /\ resp.op = "add_favorite" /\ resp.saved
    /\ \E n \in Usernames(db) : Len(FavoritesOf(db, n)) >= 2

\* the favorites that are left when those with the id are taken out, in their order
RECURSIVE Kept(_, _)
Kept(favs, id) ==
    IF favs = <<>> THEN <<>>
    ELSE IF Str(Head(favs).id) = Str(id) THEN Kept(Tail(favs), id)
    ELSE <<Head(favs)>> \o Kept(Tail(favs), id)

\* C5: remove_favorite.  The request succeeds; the user's persisted favorites are
\* the ones before the request without every favorite whose id matches, the others
\* in their order; when no id matched they are unchanged.
C5_RemoveFavoriteFilters ==
    [][ \A c \in Clients :
          (pc[c] = "upd_save" /\ op[c] = "remove_favorite" /\ pc'[c] = "idle")
          => /\ Succeeded(resp') /\ resp'.client = c
             /\ FavoritesOf(db', session[c]) = Kept(FavoritesOf(db, session[c]), arg[c].id)
             /\ ~HasFavorite(FavoritesOf(db', session[c]), arg[c].id)
             /\ ~HasFavorite(FavoritesOf(db, session[c]), arg[c].id)
                    => FavoritesOf(db', session[c]) = FavoritesOf(db, session[c]) ]_vars

\* C5: a remove_favorite has removed two favorites with the same id string and
\* kept another one
C5_RemovedAll ==
    /\ ~cleanStart
    /\ resp.op = "remove_favorite" /\ resp.saved /\ resp.id = "1"
    /\ FavoritesOf(db, resp.who) = <<NewFav(StrId("2"))>>

\* C6 as stated: after a successful add_to_list(username, movie_id) the user's
\* persisted list holds the movie: get_list returns it and delete_from_list finds it
C6_AddToListPersists ==
    [][ (resp' # resp /\ resp'.op = "add_to_list" /\ resp'.code = 200)
        => \E m \in {1, 2} :
              /\ IntStr(m) = resp'.id
              /\ InList(GetListMovies(db', resp'.who), m)
              /\ DeleteFromListResp(db', resp'.who, m).code = 200 ]_vars

\* C7: no exposed operation removes a user record.  With one request at a time,
\* every username of the document is still in it after every step.
C7_UsersNeverDeleted == [][Usernames(db) \subseteq Usernames(db')]_vars

\* C7: two users are in the store and a handler has just rewritten the document
C7_TwoUsersKept ==
    /\ Cardinality(Usernames(db)) = 2
    /\ resp.saved /\ resp.op \in {"add_favorite", "remove_favorite", "wrapped"}

\* C8 as stated: for every document that is absent, unreadable, not JSON or not a
\* list, load_users returns the empty list without raising, and find_user reports
\* every username as absent
C8_LoadUsersNeverFails ==
    db.kind # "list" =>
        /\ ~LoadRaises(db)
        /\ LoadUsers(db) = <<>>
        /\ \A n \in {"a", "b"} : ~FindUserRaises(db, n) /\ FindUser(db, n) = <<>>

Protected == {"movies", "add_favorite", "my_list", "remove_favorite", "wrapped"}

\* C9: the access guard.  A protected handler that is called without a username in
\* the session answers with the redirect to login and leaves the document alone;
\* its body runs (it answers otherwise, or goes on to update_user) only with a
\* username in the session; logout leaves the session without one, and only a
\* successful login or register puts one in.
C9_GuardHolds ==
    [][ \A c \in Clients :
          /\ (resp' # resp /\ resp'.client = c /\ resp'.op \in Protected /\ session[c] = "")
                => resp' = [ToLogin(resp'.op) EXCEPT !.client = c] /\ db' = db /\ pc'[c] = "idle"
          /\ (resp' # resp /\ resp'.client = c /\ resp'.op \in Protected /\ resp'.to # "login")
                => session[c] # ""
          /\ (pc'[c] # "idle" /\ op'[c] \in Protected) => session[c] # "" /\ session'[c] # ""
          /\ (resp' # resp /\ resp'.client = c /\ resp'.op = "logout") => session'[c] = ""
          /\ (session[c] = "" /\ session'[c] # "")
                => /\ resp'.client = c /\ resp'.op \in {"login", "register"}
                   /\ resp'.code = 302 /\ resp'.to = "movies" ]_vars

\* C9: a user registered, added a favorite and logged out; the next protected
\* request was redirected to login
C9_RedirectedAfterLogout ==
    /\ FavoritesOf(db, "b") # <<>>
    /\ \A c \in Clients : session[c] = ""
    /\ resp.op \in Protected /\ resp.to = "login"

\* the request is one that must be rejected: bad input, or a username already taken;
\* an unknown username, or a password that is not the stored one
RegisterRejected(doc, f) ==
    \/ Strip(f.username) = "" \/ Strip(f.password) = ""
    \/ Strip(f.password) # Strip(f.confirm)
    \/ Strip(f.username) \in Usernames(doc)

LoginRejected(doc, f) ==
    \/ Strip(f.username) \notin Usernames(doc)
    \/ FindIn(LoadUsers(doc), Strip(f.username))[1].password # Strip(f.password)

\* C10 as stated: a rejected register or login request (sent without a session)
\* is answered with a page that shows an error message, leaves no session and
\* leaves the document as it was
C10_RejectedWithMessage ==
    [][ /\ \A f \in RegisterForms :
              (f.post /\ RegisterRejected(db, f))
              => /\ RegisterCheck(db, "", f.post, f.username, f.password, f.confirm).code = 200
                 /\ RegisterCheck(db, "", f.post, f.username, f.password, f.confirm).msg # ""
        /\ \A f \in LoginForms :
              (f.post /\ LoginRejected(db, f))
              => /\ LoginHandler(db, "", f.post, f.username, f.password).session = ""
                 /\ LoginHandler(db, "", f.post, f.username, f.password).resp.code = 200
                 /\ LoginHandler(db, "", f.post, f.username, f.password).resp.msg # ""
        /\ \A c \in Clients :
              (resp' # resp /\ resp'.client = c /\ resp'.op \in {"login", "register"}
                  /\ resp'.msg # "")
              => db' = db /\ session'[c] = "" /\ pc'[c] = "idle" ]_vars

----------------------------------------------------------------------------
(* The remote lookups of the search: app.py and backend/movie_storage.py *)

\* what the remote service does with one request:
\*   "neterr"    requests.get raises requests.RequestException
\*   "status"    it answers with a status other than 200
\*   "notjson"   it answers 200 and the body is not JSON
\*   "notobject" it answers 200 and the body is JSON but not an object
\*   "ok"        it answers 200 with an object that holds the items
Reply(kind, items) == [kind |-> kind, items |-> items]

FailureKinds == {"neterr", "status", "notjson", "notobject"}

Failures == {Reply(k, <<>>) : k \in FailureKinds}

\* a crew entry of a person's movie credits
Crew(job, id) == [job |-> job, id |-> id]

\* the answers of search/movie (ids of movies), of search/person (ids of persons,
\* 0 for a person without one) and of person/{id}/movie_credits
MovieReplies == Failures \cup {Reply("ok", <<>>), Reply("ok", <<1, 2>>)}

PersonReplies == Failures \cup {Reply("ok", <<>>), Reply("ok", <<0>>), Reply("ok", <<5, 6>>)}

CreditReplies ==
    Failures \cup {Reply("ok", <<>>),
                   Reply("ok", <<Crew("Director", 1), Crew("Writer", 2), Crew("Director", 3)>>)}

\* the answers of movie/{id} that movie_storage asks for every result
DetailReplies == Failures \cup {Reply("ok", <<>>)}

\* limit=15 of search_movies and search_movies_by_director
Limit == 15

\* results[:limit]
Take(s, n) == IF Len(s) <= n THEN s ELSE SubSeq(s, 1, n)

\* what a search gives its caller: a list, or an exception that leaves it
Found(results) == [raises |-> FALSE, results |-> results]

Raised == [raises |-> TRUE, results |-> <<>>]

\* the body of a reply read with a guard: every failure gives the empty list
ReadGuarded(reply) == IF reply.kind = "ok" THEN Found(reply.items) ELSE Found(<<>>)

\* response.json().get(key, []) after the checks of the exception and of the status:
\* response.json() raises on a body that is not JSON, .get on one that is no object
ReadBody(reply) ==
    IF reply.kind \in {"neterr", "status"} THEN Found(<<>>)
    ELSE IF reply.kind \in {"notjson", "notobject"} THEN Raised
    ELSE Found(reply.items)

\* search_movies of app.py
SearchMovies(query, reply) ==
    IF query = "" THEN Found(<<>>)
    ELSE IF ReadBody(reply).raises THEN Raised
    ELSE Found(Take(ReadBody(reply).results, Limit))

\* [movie for movie in crew if movie.get("job") == "Director"]
Directed(crew) == SelectSeq(crew, LAMBDA m : m.job = "Director")

\* search_movies_by_director of app.py: the person search, then the credits of
\* the first person found
SearchMoviesByDirector(name, persons, credits) ==
    IF name = "" THEN Found(<<>>)
    ELSE IF ReadBody(persons).raises THEN Raised
    ELSE IF ReadBody(persons).results = <<>> THEN Found(<<>>)
    ELSE IF ReadBody(persons).results[1] = 0 THEN Found(<<>>)
    ELSE IF ReadBody(credits).raises THEN Raised
    ELSE Found(Take(Directed(ReadBody(credits).results), Limit))

\* search_movies of movie_storage.py: the search and the details of every result are
\* inside one try whose last handler is `except Exception`
StorageSearchMovies(query, reply, detail) ==
    IF Strip(query) = "" THEN Found(<<>>)
    ELSE IF reply.kind # "ok" THEN Found(<<>>)
    ELSE IF reply.items # <<>> /\ detail.kind # "ok" THEN Found(<<>>)
    ELSE Found(Take(reply.items, Limit))

\* the queries the model's clients send
Queries == {"", "x", " "}

\* the remote lookup of a search failed
Failed(reply) == reply.kind \in FailureKinds

\* a response that carries a page: r with the listing or the statistics it shows
Page(r, body) ==
    [client |-> r.client, op |-> r.op, code |-> r.code, to |-> r.to, msg |-> r.msg,
     saved |-> r.saved, who |-> r.who, id |-> r.id, body |-> body]

\* search_type of movies: "director" selects search_movies_by_director, every
\* other value search_movies
SearchTypes == {"film", "director", "other"}

\* search_func(query) of movies
MoviesSearch(kind, query, reply, persons, credits) ==
    IF kind = "director" THEN SearchMoviesByDirector(query, persons, credits)
    ELSE SearchMovies(query, reply)

\* movies with its search: the redirect of the guard, the page with the results,
\* or the server error of an exception
MoviesPage(doc, sess, kind, query, reply, persons, credits) ==
    LET found == MoviesSearch(kind, Strip(query), reply, persons, credits)
        r     == Guarded(sess, "movies", MoviesBody(doc, sess, ~found.raises))
    IN  IF r.code = 200 THEN Page(r, found.results) ELSE r

PageMovies(c) ==
    \E kind \in SearchTypes, q \in Queries :
        \E r \in MovieReplies, p \in PersonReplies, cr \in CreditReplies :
            /\ kind = "director" => r = Reply("ok", <<>>)
            /\ kind # "director" => p = Reply("ok", <<>>) /\ cr = Reply("ok", <<>>)
            /\ OneStep(c, MoviesPage(db, session[c], kind, q, r, p, cr))
            /\ UNCHANGED session
            /\ Free

\* /api/movies/search of the backend
BackendSearchResp(q, reply, detail) ==
    IF q = "" THEN Rsp("api_search", 400, "", "Query parameter 'q' is required")
    ELSE Page(Rsp("api_search", 200, "", ""), StorageSearchMovies(q, reply, detail).results)

BackendSearch ==
    \E q \in Queries, r \in MovieReplies, d \in DetailReplies :
        ApiStep(BackendSearchResp(q, r, d), <<>>)

\* the searches of the two servers, with login and logout
NextSearch ==
    \/ Deliver
    \/ BackendSearch
    \/ \E c \in Clients : Login(c) \/ Logout(c) \/ PageMovies(c)

SpecSearch == Init /\ [][NextSearch]_vars

----------------------------------------------------------------------------
(* The fields of a favorite that my_list and wrapped read *)

\* a value of a field of a favorite, as json.load gives it:
\*   "missing" the key is not there      "null"  None
\*   "num"     an int                    "str"   a string, chars its characters
\*   "list"    a list of strings, items its elements (each a sequence of characters)
Json(t, n, chars, items) == [t |-> t, n |-> n, chars |-> chars, items |-> items]

Missing == Json("missing", 0, <<>>, <<>>)

Null == Json("null", 0, <<>>, <<>>)

Num(n) == Json("num", n, <<>>, <<>>)

Text(chars) == Json("str", 0, chars, <<>>)

List(items) == Json("list", 0, <<>>, items)

\* the truth value Python gives the value (`if genres`, `if fav.get("runtime")`)
Truthy(v) ==
    CASE v.t = "num"  -> v.n # 0
      [] v.t = "str"  -> v.chars # <<>>
      [] v.t = "list" -> v.items # <<>>
      [] OTHER        -> FALSE

\* a favorite with the fields add_favorite stores and the cache fields of wrapped
\* (ratings are in tenths of a point)
FullFav(id, rating, release, runtime, genres, imdbRating) ==
    [id |-> id, imdbId |-> <<>>, imdbRating |-> imdbRating,
     rating |-> rating, release_date |-> release, runtime |-> runtime, genres |-> genres]

DigitChars == {"0", "1", "2", "3", "4", "5", "6", "7", "8", "9"}

\* the value of a digit, and the code point of a character of the model's strings
DigitValue(ch) ==
    CASE ch = "0" -> 0 [] ch = "1" -> 1 [] ch = "2" -> 2 [] ch = "3" -> 3 [] ch = "4" -> 4
      [] ch = "5" -> 5 [] ch = "6" -> 6 [] ch = "7" -> 7 [] ch = "8" -> 8 [] ch = "9" -> 9

CodePoint(ch) ==
    CASE ch \in DigitChars -> 48 + DigitValue(ch)
      [] ch = " " -> 32
      [] ch = "," -> 44
      [] ch = "-" -> 45
      [] ch = "." -> 46
      [] ch = "/" -> 47
      [] ch = "A" -> 65
      [] ch = "C" -> 67
      [] ch = "D" -> 68
      [] ch = "N" -> 78
      [] ch = "x" -> 120

AllDigits(chars) == \A i \in DOMAIN chars : chars[i] \in DigitChars

\* the number a sequence of digits stands for
RECURSIVE DigitsValue(_)
DigitsValue(chars) ==
    IF chars = <<>> THEN 0
    ELSE 10 * DigitsValue(SubSeq(chars, 1, Len(chars) - 1)) + DigitValue(chars[Len(chars)])

\* a parsed number, or the exception of the conversion
Parsed(n) == [raises |-> FALSE, n |-> n]

ParseError == [raises |-> TRUE, n |-> 0]

\* int(s) for a string: ValueError unless it is made of digits
IntOfText(chars) ==
    IF chars # <<>> /\ AllDigits(chars) THEN Parsed(DigitsValue(chars)) ELSE ParseError

\* int(v): TypeError for None
IntOf(v) ==
    CASE v.t = "num" -> Parsed(v.n)
      [] v.t = "str" -> IntOfText(v.chars)
      [] OTHER       -> ParseError

\* positions of the decimal point
Points(chars) == {i \in DOMAIN chars : chars[i] = "."}

\* float(s) for a string, in tenths: digits, or digits with one point and at most one
\* digit after it; ValueError for every other string of the model
FloatOfText(chars) ==
    IF Points(chars) = {}
    THEN IF chars # <<>> /\ AllDigits(chars) THEN Parsed(10 * DigitsValue(chars)) ELSE ParseError
    ELSE LET p    == First(Points(chars))
             int  == SubSeq(chars, 1, p - 1)
             frac == SubSeq(chars, p + 1, Len(chars))
         IN  IF /\ AllDigits(int) /\ AllDigits(frac)
                /\ Len(int) + Len(frac) > 0 /\ Len(frac) <= 1
             THEN Parsed(10 * DigitsValue(int) + DigitsValue(frac))
             ELSE ParseError

\* float(v), in tenths; a JSON number of the model is a rating in tenths already
FloatOf(v) ==
    CASE v.t = "num" -> Parsed(v.n)
      [] v.t = "str" -> FloatOfText(v.chars)
      [] OTHER       -> ParseError

\* a < b for two Python strings: by code points, a proper prefix first
RECURSIVE TextLess(_, _)
TextLess(a, b) ==
    IF b = <<>> THEN FALSE
    ELSE IF a = <<>> THEN TRUE
    ELSE IF CodePoint(Head(a)) # CodePoint(Head(b)) THEN CodePoint(Head(a)) < CodePoint(Head(b))
    ELSE TextLess(Tail(a), Tail(b))

----------------------------------------------------------------------------
(* my_list: the listing and its order *)

Reverse(s) == [i \in 1..Len(s) |-> s[Len(s) + 1 - i]]

\* one step of the stable sort: position i goes behind the last position whose key is
\* not greater
RECURSIVE InsertByKey(_, _, _)
InsertByKey(order, i, keys) ==
    IF order = <<>> THEN <<i>>
    ELSE IF keys[order[Len(order)]] <= keys[i] THEN Append(order, i)
    ELSE Append(InsertByKey(SubSeq(order, 1, Len(order) - 1), i, keys), order[Len(order)])

RECURSIVE SortUpTo(_, _)
SortUpTo(keys, n) == IF n = 0 THEN <<>> ELSE InsertByKey(SortUpTo(keys, n - 1), n, keys)

\* the positions of a list in the order its stable ascending sort gives them
StableOrder(keys) == SortUpTo(keys, Len(keys))

\* sorted(..., reverse=r): with reverse the list is reversed, sorted and reversed
\* again, which keeps elements with equal keys in their order
SortedOrder(keys, r) ==
    IF ~r THEN StableOrder(keys)
    ELSE Reverse([i \in DOMAIN keys |-> Len(keys) + 1 - StableOrder(Reverse(keys))[i]])

\* lambda x: float(x.get("rating", 0))
RatingKey(f) == IF f.rating.t = "missing" THEN Parsed(0) ELSE FloatOf(f.rating)

\* lambda x: x.get("release_date", "")
ReleaseKey(f) == IF f.release_date.t = "missing" THEN Text(<<>>) ELSE f.release_date

\* the place of a string among the strings that are compared: as many as are less
TextRank(keys, i) == Cardinality({j \in DOMAIN keys : TextLess(keys[j].chars, keys[i].chars)})

\* the favorites in the order my_list shows them, or the exception of the sort:
\* float() of a rating raises; comparing keys raises when one of them is no string
MyListing(favs, sort, reverseSort) ==
    LET ratings  == [i \in DOMAIN favs |-> RatingKey(favs[i])]
        releases == [i \in DOMAIN favs |-> ReleaseKey(favs[i])]
    IN  CASE sort = "rating" ->
               IF \E i \in DOMAIN favs : ratings[i].raises THEN Raised
               ELSE Found([i \in DOMAIN favs |->
                      favs[SortedOrder([j \in DOMAIN favs |-> ratings[j].n], ~reverseSort)[i]]])
          [] sort = "release" ->
               IF Len(favs) >= 2 /\ \E i \in DOMAIN favs : releases[i].t # "str" THEN Raised
               ELSE IF Len(favs) < 2 THEN Found(favs)
               ELSE Found([i \in DOMAIN favs |->
                      favs[SortedOrder([j \in DOMAIN favs |-> TextRank(releases, j)], ~reverseSort)[i]]])
          [] OTHER -> Found(IF reverseSort THEN Reverse(favs) ELSE favs)

\* the values of the sort parameter the model's clients send
Sorts == {"added", "rating", "release"}

\* my_list with its listing: the redirect of the guard, the page, or the server error
MyListPage(doc, sess, sort, reverseSort) ==
    LET r       == Guarded(sess, "my_list", MyListBody(doc, sess))
        listing == MyListing(FavoritesOf(doc, sess), sort, reverseSort)
    IN  IF r.code # 200 THEN r
        ELSE IF listing.raises THEN ServerError("my_list")
        ELSE Page(r, listing.results)

PageMyList(c) ==
    \E sort \in Sorts, reverseSort \in BOOLEAN :
        /\ OneStep(c, MyListPage(db, session[c], sort, reverseSort))
        /\ UNCHANGED session
        /\ Free

----------------------------------------------------------------------------
(* wrapped: the statistics *)

\* s.strip() for a string of the model: its blanks at both ends are dropped
RECURSIVE StripChars(_)
StripChars(chars) ==
    IF chars = <<>> THEN <<>>
    ELSE IF Head(chars) = " " THEN StripChars(Tail(chars))
    ELSE IF chars[Len(chars)] = " " THEN StripChars(SubSeq(chars, 1, Len(chars) - 1))
    ELSE chars

\* s.split(","): the pieces between the commas, at least one
RECURSIVE SplitCommas(_)
SplitCommas(chars) ==
    LET commas == {i \in DOMAIN chars : chars[i] = ","}
    IN  IF commas = {} THEN <<chars>>
        ELSE <<SubSeq(chars, 1, First(commas) - 1)>>
             \o SplitCommas(SubSeq(chars, First(commas) + 1, Len(chars)))

\* the genres one favorite adds to all_genres
GenresOf(f) ==
    IF ~Truthy(f.genres) THEN <<>>
    ELSE IF f.genres.t = "str"
         THEN [i \in DOMAIN SplitCommas(f.genres.chars) |-> StripChars(SplitCommas(f.genres.chars)[i])]
    ELSE f.genres.items

\* all_genres: the genres of the favorites, in the order of the scan
RECURSIVE AllGenres(_)
AllGenres(favs) == IF favs = <<>> THEN <<>> ELSE GenresOf(Head(favs)) \o AllGenres(Tail(favs))

\* all_genres.extend(genres) raises for genres that are a number
GenresRaise(favs) == \E i \in DOMAIN favs : Truthy(favs[i].genres) /\ favs[i].genres.t = "num"

Occurrences(all, g) == Cardinality({i \in DOMAIN all : all[i] = g})

\* a scan that stays with the genre it starts from
ScanNothing(all, best, i) == best

\* the scan of Counter(all_genres).most_common(1): the counts are looked at in
\* the order of the first occurrences, and a genre wins over the best so far only
\* with a greater count (best: position of the best so far, i: the next position)
RECURSIVE ScanMostCommon(_, _, _)
ScanMostCommon(all, best, i) ==
    IF i > Len(all) THEN best
    ELSE IF Occurrences(all, all[i]) > Occurrences(all, all[best])
         THEN ScanMostCommon(all, i, i + 1)
    ELSE ScanMostCommon(all, best, i + 1)

\* most_common_genre: <<>> for None
MostCommonGenre(all) == IF all = <<>> THEN <<>> ELSE <<all[ScanMostCommon(all, 1, 2)]>>

\* the runtimes that count: int(fav.get("runtime", 0)) for the truthy ones
Runtimes(favs) == SelectSeq([i \in DOMAIN favs |-> favs[i].runtime], Truthy)

RuntimesRaise(favs) == \E i \in DOMAIN Runtimes(favs) : IntOf(Runtimes(favs)[i]).raises

\* a sum that stops after the first runtime
FirstRuntime(runtimes) == IF runtimes = <<>> THEN 0 ELSE IntOf(Head(runtimes)).n

RECURSIVE TotalMinutes(_)
TotalMinutes(runtimes) ==
    IF runtimes = <<>> THEN 0 ELSE IntOf(Head(runtimes)).n + TotalMinutes(Tail(runtimes))

\* imdb_ratings: the ratings get_or_cache_imdb_rating returned, those that are not
\* None, i.e. the ratings the favorites hold after the calls
ImdbRatings(favs) == SelectSeq([i \in DOMAIN favs |-> favs[i].imdbRating], LAMBDA r : r # <<>>)

RECURSIVE SumRatings(_)
SumRatings(ratings) == IF ratings = <<>> THEN 0 ELSE Head(ratings)[1] + SumRatings(Tail(ratings))

\* p / q for naturals p and q > 0 is halfway between two integers
IsTie(p, q) == 2 * (p % q) = q

\* round() of p / q to an integer: the nearest one; for a value halfway between two
\* the binary float nearest to it decides, so that either can come out (up: the greater)
Rounded(p, q, up) ==
    IF 2 * (p % q) < q THEN p \div q
    ELSE IF 2 * (p % q) > q THEN p \div q + 1
    ELSE IF up THEN p \div q + 1 ELSE p \div q

\* the ratings of the model are in tenths of a point, the average in hundredths
TenthsToHundredths(n) == 10 * n

\* an average that is cut off after two decimals
TruncatedAverage(ratings, up) ==
    IF ratings = <<>> THEN <<>> ELSE <<TenthsToHundredths(SumRatings(ratings)) \div Len(ratings)>>

\* average_rating in hundredths of a point: round(sum / len, 2)
AverageRating(ratings, up) ==
    IF ratings = <<>> THEN <<>>
    ELSE <<Rounded(TenthsToHundredths(SumRatings(ratings)), Len(ratings), up)>>

\* taste_label: "" for None
TasteLabel(average) ==
    IF average = <<>> THEN ""
    ELSE IF average[1] >= 800 THEN "Elite taste, you know cinema!"
    ELSE IF average[1] >= 600 THEN "You have good taste!"
    ELSE "This is questionable, you need to watch better movies!"

\* what wrapped.html is rendered with; average <<>> and label "" for None
Stats(hours, minutes, genre, total, average, rated, label) ==
    [hours |-> hours, minutes |-> minutes, most_common_genre |-> genre, total_movies |-> total,
     average_rating |-> average, rated_movies |-> rated, taste_label |-> label]

\* the page of a user without favorites
NoStats == Stats(0, 0, <<>>, 0, <<>>, 0, "")

\* the statistics of wrapped over the favorites as the rating lookups left them,
\* or the exception of int() or of extend()
WrappedStats(favs, up) ==
    IF RuntimesRaise(favs) \/ GenresRaise(favs) THEN Raised
    ELSE Found(Stats(TotalMinutes(Runtimes(favs)) \div 60, TotalMinutes(Runtimes(favs)) % 60,
                     MostCommonGenre(AllGenres(favs)), Len(favs),
                     AverageRating(ImdbRatings(favs), up), Len(ImdbRatings(favs)),
                     TasteLabel(AverageRating(ImdbRatings(favs), up))))


\* the ratings OMDb gives in the listings below, in tenths
PageRatings == {55}

\* the answers of the remote lookups of wrapped there
PageLookups == {Lookup(<<>>, <<>>)} \cup {Lookup(<<"tt">>, <<r>>) : r \in PageRatings}

\* the lookups of favorite bad get a body that is not JSON and response.json()
\* raises (bad = 0: none does); a favorite with a cached rating is not looked up
LookupRaises(favs, bad) == bad \in DOMAIN favs /\ favs[bad].imdbRating = <<>>

\* wrapped as one request: find_user, the rating of every favorite, update_user
\* when a rating was fetched, the statistics and the page.  resp: the response;
\* doc: the document the request leaves; saved: update_user wrote it
WrappedPage(doc, sess, look, bad, up) ==
    LET r      == Guarded(sess, "wrapped",
                          WrappedBody(doc, sess, look, ~LookupRaises(FavoritesOf(doc, sess), bad)))
        found  == FindUser(doc, sess)
        favs   == CachedFavs(found[1].favorites, look)
        saved  == r = NoResp
        ok     == RspFor("wrapped", 200, "", "", saved, sess, "")
        stats  == WrappedStats(favs, up)
        after  == IF saved THEN UpdateUserDoc(doc, [found[1] EXCEPT !.favorites = favs]) ELSE doc
    IN  IF r # NoResp /\ r.code # 200 THEN [resp |-> r, doc |-> doc, saved |-> FALSE]
        ELSE IF found = <<>> \/ found[1].favorites = <<>>
             THEN [resp |-> Page(r, NoStats), doc |-> doc, saved |-> FALSE]
        ELSE IF saved /\ (LoadRaises(doc) \/ SaveRaises(doc))
             THEN [resp |-> ServerError("wrapped"), doc |-> doc, saved |-> FALSE]
        ELSE IF stats.raises THEN [resp |-> ServerError("wrapped"), doc |-> after, saved |-> saved]
        ELSE [resp |-> Page(ok, stats.results), doc |-> after, saved |-> saved]

\* the answers the lookups of a wrapped request over favs can get; a favorite with a
\* cached rating is not looked up
LooksFor(favs) ==
    {look \in [DOMAIN favs -> PageLookups] :
        \A i \in DOMAIN favs : favs[i].imdbRating # <<>> => look[i] = Lookup(<<>>, <<>>)}

\* the ways round() can go for the ratings: both at a tie
Ups(ratings) ==
    IF ratings # <<>> /\ IsTie(TenthsToHundredths(SumRatings(ratings)), Len(ratings))
    THEN BOOLEAN ELSE {TRUE}

\* a request in which a lookup raises ends with the server error and leaves the
\* document alone whatever the other lookups answered: one answer stands for all
PageWrapped(c) ==
    LET favs == FavoritesOf(db, session[c])
    IN  \E look \in LooksFor(favs), bad \in {0} \cup {i \in DOMAIN favs : favs[i].imdbRating = <<>>} :
            \E up \in Ups(ImdbRatings(CachedFavs(favs, look))) :
                LET page == WrappedPage(db, session[c], look, bad, up)
                IN  /\ bad # 0 => \A i \in DOMAIN look : look[i] = Lookup(<<>>, <<>>)
                    /\ Begin(c)
                    /\ Finish(c, page.resp)
                    /\ IF page.saved THEN Save(c, LoadUsers(page.doc), "", "") ELSE NoSave
                    /\ UNCHANGED <<pc, op, user, users, arg, session>>
                    /\ Free

----------------------------------------------------------------------------
(* The pages: my_list and wrapped over the favorites a user can hold *)

\* the most favorites of the user in the documents below
MaxFavs == 3

\* favorites as the application and the backfill script leave them: fields sent by
\* the form (strings), fields the form did not send (null), fields never stored
\* (missing), runtime and genres as update_rlist_movies.py writes them
Profiles ==
    { FullFav(IntId(0), Text(<<"7", ".", "5">>), Text(<<"2">>), Text(<<"9", "0">>),
              Text(<<"D", ",", " ", "A">>), <<70>>),
      FullFav(IntId(0), Missing, Missing, Missing, Missing, <<>>),
      FullFav(IntId(0), Null, Null, Null, Null, <<>>),
      FullFav(IntId(0), Text(<<"N", "/", "A">>), Text(<<"1", "9">>), Num(45),
              List(<<(<<"A">>)>>), <<80>>),
      FullFav(IntId(0), Text(<<"8">>), Text(<<>>), Text(<<"N", "/", "A">>),
              Text(<<" ", "C", ",", "C", " ">>), <<>>) }

\* the favorites of a user: every favorite has its own id
PageFavorites ==
    UNION {{[i \in 1..n |-> [fs[i] EXCEPT !.id = IntId(i)]] : fs \in [1..n -> Profiles]} : n \in 0..MaxFavs}

PageDocs == {Doc("list", <<User("a", "p", favs, <<>>)>>) : favs \in PageFavorites}

InitPages == InitWith(PageDocs)

\* the pages are asked for by the browser
PageClients == {"c2"}

NextPages ==
    \/ Deliver
    \/ \E c \in PageClients : Login(c) \/ PageMyList(c) \/ PageWrapped(c)

SpecPages == InitPages /\ [][NextPages]_vars


----------------------------------------------------------------------------
(* Properties of the pages *)

\* the answer of a well-formed, empty remote reply
NoItems == Reply("ok", <<>>)

\* the page is shown with an empty listing
EmptyPage(r) == r.code = 200 /\ r.body = <<>>

\* C11 as stated: whenever a remote lookup of a search fails (network error,
\* non-success status or malformed body), search_movies and
\* search_movies_by_director of app.py and search_movies of the backend give the
\* handler the empty list and raise nothing: the movies page of a logged-in
\* user and the backend's answer are shown with no results
C11_LookupFailuresGiveEmpty ==
    /\ \A c \in Clients :
         session[c] # "" /\ ~FindUserRaises(db, session[c]) =>
            /\ \A q \in Queries, reply \in Failures :
                 EmptyPage(MoviesPage(db, session[c], "film", q, reply, NoItems, NoItems))
            /\ \A q \in Queries, persons \in PersonReplies, credits \in CreditReplies :
                 Failed(persons) \/ Failed(credits) =>
                    EmptyPage(MoviesPage(db, session[c], "director", q, NoItems, persons, credits))
    /\ \A q \in Queries \ {""}, reply \in MovieReplies, detail \in DetailReplies :
         Failed(reply) \/ Failed(detail) => BackendSearchResp(q, reply, detail).code = 200


\* the client whose session is open and whose user the document holds
LoggedIn(c) == session[c] # "" /\ FindUser(db, session[c]) # <<>>

\* the request fetched the rating of favorite i: its lookups answered with a rating,
\* and they were made (the request got to i before a lookup raised)
Fetched(favs, look, bad, i) ==
    CacheUpdated(favs[i], look[i]) /\ (LookupRaises(favs, bad) => i < bad)

\* C12 as stated: a wrapped request that fetches the IMDb rating of a favorite
\* without a cached one leaves that rating on the favorite in the persisted
\* document; a favorite with a stored rating is not looked up again, whatever the
\* remote services would answer, and keeps its rating in the document the request
\* leaves
C12_FetchedRatingIsPersisted ==
    \A c \in PageClients :
        LoggedIn(c) =>
            \A look \in LooksFor(FavoritesOf(db, session[c])),
               bad \in 0..Len(FavoritesOf(db, session[c])) :
                LET favs  == FavoritesOf(db, session[c])
                    after == FavoritesOf(WrappedPage(db, session[c], look, bad, TRUE).doc, session[c])
                IN  \A i \in DOMAIN favs :
                        /\ Fetched(favs, look, bad, i) => after[i].imdbRating = look[i].rating
                        /\ favs[i].imdbRating # <<>> =>
                              /\ CachedFav(favs[i], look[i]) = favs[i]
                              /\ ~CacheUpdated(favs[i], look[i])
                              /\ ~LookupRaises(favs, i)
                              /\ after[i].imdbRating = favs[i].imdbRating


\* the rating of a favorite as a number, in tenths; 0 when it is missing, null or no number
RatingOrZero(f) == IF FloatOf(f.rating).raises THEN 0 ELSE FloatOf(f.rating).n

\* the listing holds the favorites favs, each as often as favs does
SameFavorites(listing, favs) ==
    /\ Len(listing) = Len(favs)
    /\ \A i \in DOMAIN favs :
         Cardinality({j \in DOMAIN listing : listing[j] = favs[i]})
            = Cardinality({j \in DOMAIN favs : favs[j] = favs[i]})

\* C13 as stated: whatever ratings the stored favorites hold, my_list with
\* sort=rating answers with a listing of all the favorites in the order of their
\* numeric ratings (descending, ascending with the reverse flag), a rating that is
\* missing, null or not a number counting as 0; the request never fails
C13_RatingSortNeverFails ==
    \A c \in PageClients :
        LoggedIn(c) =>
            \A reverseSort \in BOOLEAN :
                LET favs == FavoritesOf(db, session[c])
                    page == MyListPage(db, session[c], "rating", reverseSort)
                IN  /\ page.code = 200
                    /\ SameFavorites(page.body, favs)
                    /\ \A i \in 1..(Len(favs) - 1) :
                         IF reverseSort
                         THEN RatingOrZero(page.body[i]) <= RatingOrZero(page.body[i + 1])
                         ELSE RatingOrZero(page.body[i]) >= RatingOrZero(page.body[i + 1])


\* the release date of a favorite as a string, the empty one when there is none
ReleaseOrEmpty(f) == IF f.release_date.t = "str" THEN f.release_date.chars ELSE <<>>

\* the place of a favorite in the stored sequence (ids are unique there)
PlaceIn(favs, f) == CHOOSE k \in DOMAIN favs : favs[k].id = f.id

\* C14 as stated: my_list with sort=release answers with a listing of all the
\* favorites in the lexicographic order of their release dates, ascending with the
\* reverse flag and descending without it; favorites with equal dates keep their
\* insertion order; a favorite without a release date counts as the empty string,
\* so that it comes first in ascending order
C14_ReleaseSortIsStable ==
    \A c \in PageClients :
        LoggedIn(c) =>
            \A reverseSort \in BOOLEAN :
                LET favs == FavoritesOf(db, session[c])
                    page == MyListPage(db, session[c], "release", reverseSort)
                IN  /\ page.code = 200
                    /\ SameFavorites(page.body, favs)
                    /\ \A i, j \in DOMAIN favs :
                         i < j =>
                            LET a == ReleaseOrEmpty(page.body[i])
                                b == ReleaseOrEmpty(page.body[j])
                            IN  /\ IF reverseSort THEN ~TextLess(b, a) ELSE ~TextLess(a, b)
                                /\ a = b => PlaceIn(favs, page.body[i]) < PlaceIn(favs, page.body[j])


\* the response in flight shows the wrapped page of a user with favorites; the
\* document is the one the request left
WrappedShown == resp.op = "wrapped" /\ resp.code = 200 /\ FavoritesOf(db, resp.who) # <<>>

\* the genres of the user of the page, flattened in the order of the scan
GenresShown == AllGenres(FavoritesOf(db, resp.who))

FirstPlace(all, g) == First({i \in DOMAIN all : all[i] = g})

\* C15: the genre the wrapped page reports occurs at least as often among the
\* flattened genres of the favorites as every other genre, and among the genres
\* that occur as often it is the first in the scan; the genres of a
\* comma-separated string are its pieces without the blanks around them; no genre
\* is reported exactly when no favorite has genre data
C15_MostCommonGenre ==
    WrappedShown =>
        LET all == GenresShown
            top == resp.body.most_common_genre
        IN  /\ top = <<>> <=> all = <<>>
            /\ top # <<>> =>
                  /\ \E i \in DOMAIN all : all[i] = top[1]
                  /\ \A i \in DOMAIN all :
                        /\ Occurrences(all, all[i]) <= Occurrences(all, top[1])
                        /\ Occurrences(all, all[i]) = Occurrences(all, top[1])
                              => FirstPlace(all, top[1]) <= i
            /\ \A k \in DOMAIN FavoritesOf(db, resp.who) :
                  LET f == FavoritesOf(db, resp.who)[k]
                  IN  Truthy(f.genres) /\ f.genres.t = "str" =>
                         /\ Len(GenresOf(f)) = 1 + Cardinality({i \in DOMAIN f.genres.chars : f.genres.chars[i] = ","})
                         /\ \A i \in DOMAIN GenresOf(f) :
                               LET g == GenresOf(f)[i]
                               IN  /\ \A j \in DOMAIN g : g[j] # ","
                                   /\ g # <<>> => g[1] # " " /\ g[Len(g)] # " "

\* the page reports a genre that is not the first of the scan: it occurs more often
C15_CountBeatsOrder ==
    /\ WrappedShown
    /\ resp.body.most_common_genre # <<>>
    /\ resp.body.most_common_genre[1] # GenresShown[1]
    /\ \E k \in DOMAIN FavoritesOf(db, resp.who) : FavoritesOf(db, resp.who)[k].genres.t = "str"


\* the runtime of a favorite in minutes when it is known: a number, or a string of
\* digits; 0 for a favorite without one (missing, null, empty)
KnownRuntime(f) ==
    CASE f.runtime.t = "num" -> f.runtime.n
      [] f.runtime.t = "str" /\ f.runtime.chars # <<>> /\ AllDigits(f.runtime.chars)
                             -> DigitsValue(f.runtime.chars)
      [] OTHER               -> 0

RECURSIVE SumKnown(_)
SumKnown(favs) == IF favs = <<>> THEN 0 ELSE KnownRuntime(Head(favs)) + SumKnown(Tail(favs))

\* C16: on every wrapped page hours * 60 + minutes is the sum of the runtimes of
\* the favorites that have one, with 0 <= minutes < 60; favorites without a
\* runtime add nothing; the page of a user without favorites shows 0 hours and
\* 0 minutes
C16_HoursAndMinutes ==
    resp.op = "wrapped" /\ resp.code = 200 =>
        /\ resp.body.hours * 60 + resp.body.minutes = SumKnown(FavoritesOf(db, resp.who))
        /\ resp.body.minutes >= 0 /\ resp.body.minutes < 60
        /\ resp.body.hours >= 0
        /\ FavoritesOf(db, resp.who) = <<>> => resp.body.hours = 0 /\ resp.body.minutes = 0

\* the page shows 2 hours 15 minutes for favorites of which one has no runtime
C16_TwoHoursFifteen ==
    /\ WrappedShown
    /\ resp.body.hours = 2 /\ resp.body.minutes = 15
    /\ \E k \in DOMAIN FavoritesOf(db, resp.who) : ~Truthy(FavoritesOf(db, resp.who)[k].runtime)


\* the ratings behind the page in flight: those of the favorites that have one
\* after the request, cached before it or fetched and stored by it
RatingsShown == ImdbRatings(FavoritesOf(db, resp.who))

\* the label that goes with an average given in hundredths
LabelFor(a) ==
    IF a >= 800 THEN "Elite taste, you know cinema!"
    ELSE IF a >= 600 THEN "You have good taste!"
    ELSE "This is questionable, you need to watch better movies!"

\* C17, amended: the average rating of the wrapped page is the mean of the
\* ratings of exactly the favorites with a resolvable IMDb rating, rounded to two
\* decimals (no hundredth is nearer to the mean); the label follows the rounded
\* average with the thresholds 8.0 and 6.0; without a rated favorite the page has
\* no average and no label
C17_AverageIsRoundedMean ==
    resp.op = "wrapped" /\ resp.code = 200 =>
        LET n == Len(RatingsShown)
            s == TenthsToHundredths(SumRatings(RatingsShown))
            a == resp.body.average_rating
        IN  /\ resp.body.rated_movies = n
            /\ n = 0 => a = <<>> /\ resp.body.taste_label = ""
            /\ n > 0 =>
                  /\ a # <<>>
                  /\ 2 * (a[1] * n - s) <= n /\ 2 * (s - a[1] * n) <= n
                  /\ resp.body.taste_label = LabelFor(a[1])

\* C17 as stated: the average rating of the wrapped page is the mean of the
\* ratings of the favorites with a resolvable IMDb rating, the label follows it
\* with the thresholds 8.0 and 6.0, and both are absent without a rated favorite
C17_AverageIsMean ==
    resp.op = "wrapped" /\ resp.code = 200 =>
        LET n == Len(RatingsShown)
            s == TenthsToHundredths(SumRatings(RatingsShown))
            a == resp.body.average_rating
        IN  /\ n = 0 => a = <<>> /\ resp.body.taste_label = ""
            /\ n > 0 =>
                  /\ a # <<>>
                  /\ a[1] * n = s
                  /\ resp.body.taste_label = LabelFor(a[1])

\* the page shows 7.33 for the ratings 7.0, 7.0 and 8.0
C17_SevenThirtyThree ==
    /\ WrappedShown
    /\ Len(RatingsShown) = 3 /\ SumRatings(RatingsShown) = 220
    /\ resp.body.average_rating = <<733>>
    /\ resp.body.taste_label = "You have good taste!"


\* C18 as stated: from a document with unique usernames, whatever register
\* requests are made and however their check, load and save steps interleave, the
\* persisted document never holds two records with the same username
C18_UniqueUsernames ==
    \A i, j \in DOMAIN LoadUsers(db) :
        i # j => LoadUsers(db)[i].username # LoadUsers(db)[j].username

====
